---- MODULE Spec2Model ----
(***************************************************************************)
(* Model of assets/js/main.js: utils.debounce and the FormHandler class    *)
(* (field validation, inline error display, form submission, toasts),      *)
(* utils.throttle with the back-to-top button, MobileMenu and TabSystem.    *)
(* One form is modelled.  Time is kept in milliseconds and advances in     *)
(* steps of TickMs; a timer callback runs when its remaining delay is 0.   *)
(***************************************************************************)
EXTENDS Integers, Sequences, FiniteSets, TLC

(***************************************************************************)
(* Bounds of the model.                                                    *)
(***************************************************************************)
NumFields == 2
MaxInFlight == 2
MaxToasts == 1
BurstCap == 2
MaxToastsWhileActive == 0
MaxCoexist == 2
MaxLen == 6
MaxTabs == 3

(***************************************************************************)
(* Delays set by the source, in milliseconds.                              *)
(***************************************************************************)
DebounceWaitMs == 300
ToastShowDelayMs == 100
ToastHideDelayMs == 3000
ToastRemoveDelayMs == 300
TickMs == ToastShowDelayMs
ThrottleLimitMs == 100   \* utils.throttle(..., 100) around toggleBackToTop
ScrollThreshold == 300   \* window.scrollY > 300 shows the back-to-top button
ScrollTickMs == 50       \* time step of the scroll model
SinceRunCap == 2 * ThrottleLimitMs

None == -1
NoNode == "no-node"

(***************************************************************************)
(* The form's markup: the fields in document order, their type and         *)
(* required attributes, the label of the submit control.                   *)
(***************************************************************************)
Fields == 1..NumFields
Parents == 1..NumFields
FieldType(f) == IF f % 3 = 1 THEN "email" ELSE IF f % 3 = 2 THEN "tel" ELSE "text"
FieldRequired(f) == f % 2 = 1
OriginalLabel == "Send"
BusyLabel == "Submitting..."
DefaultValue == << >>

\* Strings are sequences of one-character strings.
EmailOk == <<"a", "@", "b", ".", "c">>
PhoneOk == <<"1", "2">>
EditValues == { << >>, EmailOk, PhoneOk }

\* The two ways the fields can sit in the document: every field under its
\* own parent element, or all fields siblings under one parent.
Layouts == { [f \in Fields |-> f], [f \in Fields |-> 1] }

MSG_REQUIRED == "required"
MSG_EMAIL == "invalid-email"
MSG_PHONE == "invalid-phone"
MSG_NONE == ""

VARIABLES
    parentOf,      \* field -> its parentNode
    hasSubmit,     \* form.querySelector('[type="submit"]') finds an element
    value,         \* field.value
    errClass,      \* field.classList contains 'error'
    errNode,       \* parent -> textContent of its .field-error child, or NoNode
    btnDisabled,   \* submitBtn.disabled
    btnLabel,      \* submitBtn.textContent
    calls,         \* submitForm invocations suspended at `await fetch(...)`
    toasts,        \* .form-message elements in document.body, with their timers
    timeout,       \* per field: remaining delay of the timer held by debounce's `timeout`
    sinceInput,    \* per field: time since its last input event (saturates at DebounceWaitMs)
    runs,          \* per field: debounced validator runs since its last input event
    burstLen,      \* per field: input events (counted up to BurstCap) since the
                   \* field's timer was last idle, while a timer is pending
    lastOp,        \* the handler or callback that ran last; a debounced run that
                   \* closes a burst of BurstCap or more input events is "debounce-burst"
    unhandled,     \* a submitForm promise was rejected with nobody handling it
    \* MobileMenu
    hasMenu,       \* .mobile-menu-btn and .main-nav both exist
    isOpen,        \* this.isOpen
    navActive,     \* nav.classList contains 'active'
    btnActive,     \* menuBtn.classList contains 'active'
    ariaExpanded,  \* menuBtn's aria-expanded attribute
    bodyOverflow,  \* document.body.style.overflow
    \* utils.throttle around toggleBackToTop
    inThrottle,    \* the closure's inThrottle
    throttleTimer, \* remaining delay of the timer that clears inThrottle
    scrollY,       \* window.scrollY
    backVisible,   \* the back-to-top button is shown
    sinceRun,      \* time since the wrapped action last ran (saturates)
    lastWidgetOp,  \* the menu, scroll or timer handler that ran last
    \* one call of the validator on a free-standing field
    vIn,           \* the field: type, required, value
    vDone,         \* the validator has returned
    vOut,          \* its verdict
    \* TabSystem
    numButtons,    \* this.tabButtons.length
    numPanels,     \* this.tabPanels.length
    tabActive,     \* per tab button: classList contains 'active'
    ariaSelected,  \* per tab button: its aria-selected attribute
    panelActive,   \* per tab panel: classList contains 'active'
    lastTab        \* the activeIndex of the last switchTab call, None before it

menuVars == << hasMenu, isOpen, navActive, btnActive, ariaExpanded, bodyOverflow >>
throttleVars == << inThrottle, throttleTimer, scrollY, backVisible, sinceRun >>
validatorVars == << vIn, vDone, vOut >>
tabVars == << numButtons, numPanels, tabActive, ariaSelected, panelActive, lastTab >>
pageVars == << menuVars, throttleVars, lastWidgetOp, validatorVars, tabVars >>
formVars == << parentOf, hasSubmit, value, errClass, errNode, btnDisabled, btnLabel,
               calls, toasts, timeout, sinceInput, runs, burstLen, lastOp, unhandled >>

vars == << formVars, pageVars >>

layoutVars == << parentOf, hasSubmit >>
fieldVars == << value, errClass, errNode >>
buttonVars == << btnDisabled, btnLabel >>
debounceVars == << timeout, sinceInput, runs, burstLen >>

(***************************************************************************)
(* String helpers: String.prototype.trim and the two regular expressions.  *)
(***************************************************************************)
IsSpace(c) == c \in {" ", "\t"}
IsDigit(c) == c \in {"0", "1", "2", "3", "4", "5", "6", "7", "8", "9"}

RECURSIVE TrimLeft(_)
TrimLeft(s) == IF s # << >> /\ IsSpace(Head(s)) THEN TrimLeft(Tail(s)) ELSE s

RECURSIVE TrimRight(_)
TrimRight(s) ==
    IF s # << >> /\ IsSpace(s[Len(s)]) THEN TrimRight(SubSeq(s, 1, Len(s) - 1)) ELSE s

\* Variant: the value is tested as typed.
Trim_None(s) == s

Trim(s) == TrimRight(TrimLeft(s))

\* [^\s@]+ over s[i..j]
PlainRun(s, i, j) == i <= j /\ \A k \in i..j : ~IsSpace(s[k]) /\ s[k] # "@"

\* Variant: /^[^\s@]+@[^\s@]+$/, no dot required after the '@'.
EmailRegexTest_NoTld(s) ==
    \E a \in 1..Len(s) :
        /\ s[a] = "@"
        /\ PlainRun(s, 1, a - 1)
        /\ PlainRun(s, a + 1, Len(s))

\* /^[^\s@]+@[^\s@]+\.[^\s@]+$/
EmailRegexTest(s) ==
    \E a \in 1..Len(s) : \E d \in 1..Len(s) :
        /\ s[a] = "@"
        /\ s[d] = "."
        /\ PlainRun(s, 1, a - 1)
        /\ PlainRun(s, a + 1, d - 1)
        /\ PlainRun(s, d + 1, Len(s))

\* Variant: /^[\d\-\+\(\)]+$/, whitespace not allowed.
PhoneRegexTest_NoSpace(s) ==
    /\ Len(s) >= 1
    /\ \A k \in 1..Len(s) : IsDigit(s[k]) \/ s[k] \in {"-", "+", "(", ")"}

\* /^[\d\s\-\+\(\)]+$/
PhoneRegexTest(s) ==
    /\ Len(s) >= 1
    /\ \A k \in 1..Len(s) : IsDigit(s[k]) \/ IsSpace(s[k]) \/ s[k] \in {"-", "+", "(", ")"}

(***************************************************************************)
(* FormHandler.validateField, the verdict part (lines 248-275).            *)
(***************************************************************************)
Verdict(type, required, raw) ==
    LET v == Trim(raw) IN
    IF required /\ v = << >> THEN [isValid |-> FALSE, message |-> MSG_REQUIRED]
    ELSE IF v # << >> /\ type = "email" /\ ~EmailRegexTest(v)
        THEN [isValid |-> FALSE, message |-> MSG_EMAIL]
    ELSE IF v # << >> /\ type = "tel" /\ ~PhoneRegexTest(v)
        THEN [isValid |-> FALSE, message |-> MSG_PHONE]
    ELSE [isValid |-> TRUE, message |-> MSG_NONE]

FieldVerdict(f, raw) == Verdict(FieldType(f), FieldRequired(f), raw)

(***************************************************************************)
(* FormHandler.showFieldValidation on a display state d = [cls, node]:     *)
(* cls is the fields' error class, node the parents' .field-error child.   *)
(***************************************************************************)
\* Variant: a valid verdict removes the inline node but leaves the error class.
ShowFieldValidation_KeepsClass(d, f, isValid, message) ==
    LET p == parentOf[f]
    IN  IF ~isValid
        THEN [cls |-> [d.cls EXCEPT ![f] = TRUE],
              node |-> [d.node EXCEPT ![p] = message]]
        ELSE [cls |-> d.cls,
              node |-> [d.node EXCEPT ![p] = NoNode]]

ShowFieldValidation(d, f, isValid, message) ==
    LET p == parentOf[f]
        errorElement == d.node[p]
    IN  IF ~isValid
        THEN [cls |-> [d.cls EXCEPT ![f] = TRUE],
              node |-> [d.node EXCEPT ![p] = message]]
        ELSE [cls |-> [d.cls EXCEPT ![f] = FALSE],
              node |-> IF errorElement # NoNode
                         THEN [d.node EXCEPT ![p] = NoNode]
                         ELSE d.node]

\* FormHandler.validateField: the display after validating f, and the verdict.
ValidateField(d, f) ==
    LET r == FieldVerdict(f, value[f])
    IN  ShowFieldValidation(d, f, r.isValid, r.message)

FieldIsValid(f) == FieldVerdict(f, value[f]).isValid

\* FormHandler.validateForm: inputs.forEach in document order, fields 1..k.
RECURSIVE ValidateFormDisplay(_, _)
ValidateFormDisplay(d, k) ==
    IF k = 0 THEN d ELSE ValidateField(ValidateFormDisplay(d, k - 1), k)

\* Variant: isValid is overwritten by each field's verdict, the last one wins.
ValidateFormResult_LastWins == FieldIsValid(NumFields)

ValidateFormResult == \A f \in Fields : FieldIsValid(f)

Display == [cls |-> errClass, node |-> errNode]

(***************************************************************************)
(* utils.debounce: the delay `timeout` holds after an input event.         *)
(***************************************************************************)
\* Variant: a pending timer is left running instead of being restarted.
DebounceSchedule_NoRestart(t) == IF t = None THEN DebounceWaitMs ELSE t

DebounceSchedule(t) == DebounceWaitMs

(***************************************************************************)
(* FormHandler.init wraps the validator of every input in a debounce       *)
(* closure of its own, so an input event reschedules that field's timer    *)
(* only.  The variant has one closure, hence one timer, for the whole      *)
(* form: an input event on one field drops the pending run of the others.  *)
(***************************************************************************)
InputTimers_SharedClosure(ts, f) ==
    [g \in Fields |-> IF g = f THEN DebounceSchedule(ts[g]) ELSE None]

InputTimers(ts, f) ==
    [ts EXCEPT ![f] = DebounceSchedule(ts[f])]

(***************************************************************************)
(* FormHandler.showMessage: the toast appended to document.body.           *)
(***************************************************************************)
NewToast(kind) ==
    [kind |-> kind, show |-> FALSE,
     tShow |-> ToastShowDelayMs, tHide |-> ToastHideDelayMs, tRemove |-> None]

ShowMessage(ts, kind) == Append(ts, NewToast(kind))

RemoveAt(s, i) == SubSeq(s, 1, i - 1) \o SubSeq(s, i + 1, Len(s))

(***************************************************************************)
(* Initial state: the page after init() has constructed FormHandler.       *)
(***************************************************************************)
InitForm ==
    /\ parentOf \in Layouts
    /\ hasSubmit \in BOOLEAN
    /\ value = [f \in Fields |-> DefaultValue]
    /\ errClass = [f \in Fields |-> FALSE]
    /\ errNode = [p \in Parents |-> NoNode]
    /\ btnDisabled = FALSE
    /\ btnLabel = OriginalLabel
    /\ calls = << >>
    /\ toasts = << >>
    /\ timeout = [f \in Fields |-> None]
    /\ sinceInput = [f \in Fields |-> DebounceWaitMs]
    /\ runs = [f \in Fields |-> 0]
    /\ burstLen = [f \in Fields |-> 0]
    /\ lastOp = "other"
    /\ unhandled = FALSE

\* MobileMenu's constructor on a page whose markup shows the menu closed.
InitMenu ==
    /\ isOpen = FALSE
    /\ navActive = FALSE
    /\ btnActive = FALSE
    /\ ariaExpanded = "false"
    /\ bodyOverflow = ""

\* initializeApp creates the back-to-top button hidden, at the top of the page.
InitThrottle ==
    /\ inThrottle = FALSE
    /\ throttleTimer = None
    /\ scrollY = 0
    /\ backVisible = FALSE
    /\ sinceRun = SinceRunCap
    /\ lastWidgetOp = "none"

\* No free-standing validator call.
InitValidator ==
    /\ vIn = [type |-> "text", required |-> FALSE, value |-> << >>]
    /\ vDone = FALSE
    /\ vOut = [isValid |-> TRUE, message |-> MSG_NONE]

\* TabSystem's constructor on a page whose markup shows the first tab.
InitTabs ==
    /\ tabActive = [i \in 0..(numButtons - 1) |-> i = 0]
    /\ ariaSelected = [i \in 0..(numButtons - 1) |-> IF i = 0 THEN "true" ELSE "false"]
    /\ panelActive = [j \in 0..(numPanels - 1) |-> j = 0]
    /\ lastTab = None

Init ==
    /\ InitForm
    /\ hasMenu = TRUE
    /\ InitMenu
    /\ InitThrottle
    /\ InitValidator
    /\ numButtons = MaxTabs
    /\ numPanels = MaxTabs
    /\ InitTabs

(***************************************************************************)
(* The user acts on the form (input, blur, submit events) only while at    *)
(* most MaxToastsWhileActive toasts are on the page.                       *)
(***************************************************************************)
UserActive == Len(toasts) <= MaxToastsWhileActive

(***************************************************************************)
(* 'input' event on field f: the user changes the value; the debounced     *)
(* handler clears the pending timer and starts a new one.                  *)
(***************************************************************************)
Input(f, v) ==
    /\ UserActive
    /\ v # value[f]
    /\ value' = [value EXCEPT ![f] = v]
    /\ timeout' = InputTimers(timeout, f)
    /\ sinceInput' = [sinceInput EXCEPT ![f] = 0]
    /\ runs' = [runs EXCEPT ![f] = 0]
    /\ burstLen' = [burstLen EXCEPT ![f] =
                       IF timeout[f] = None THEN 1
                       ELSE IF @ < BurstCap THEN @ + 1 ELSE @]
    /\ lastOp' = "other"
    /\ UNCHANGED << pageVars, unhandled, layoutVars, errClass, errNode, buttonVars, calls, toasts >>

\* 'blur' event on field f: validateField(f) at once.
Blur(f) ==
    /\ UserActive
    /\ LET d == ValidateField(Display, f)
       IN  errClass' = d.cls /\ errNode' = d.node
    /\ lastOp' = "other"
    /\ UNCHANGED << pageVars, unhandled, layoutVars, value, buttonVars, calls, toasts, debounceVars >>

\* The debounce timer of field f fires: later() runs validateField(f).
DebounceFire(f) ==
    /\ timeout[f] = 0
    /\ timeout' = [timeout EXCEPT ![f] = None]
    /\ runs' = [runs EXCEPT ![f] = IF runs[f] < 2 THEN runs[f] + 1 ELSE 2]
    /\ LET d == ValidateField(Display, f)
       IN  errClass' = d.cls /\ errNode' = d.node
    /\ burstLen' = [burstLen EXCEPT ![f] = 0]
    /\ lastOp' = IF burstLen[f] >= BurstCap THEN "debounce-burst" ELSE "debounce"
    /\ UNCHANGED << pageVars, unhandled, layoutVars, value, buttonVars, calls, toasts, sinceInput >>

(***************************************************************************)
(* 'submit' event: handleSubmit -> validateForm -> submitForm up to the    *)
(* await.  Without a submit control submitForm throws on line 304.         *)
(***************************************************************************)
\* Variant: new FormData() without the form, an empty payload.
FormData_NoForm(vals) == [f \in Fields |-> DefaultValue]

\* new FormData(form): the values of the fields at the time of the call.
FormData(vals) == vals

HandleSubmit ==
    /\ UserActive
    /\ Len(calls) < MaxInFlight
    /\ LET d == ValidateFormDisplay(Display, NumFields)
       IN  errClass' = d.cls /\ errNode' = d.node
    /\ IF ValidateFormResult /\ hasSubmit
         THEN /\ btnDisabled' = TRUE
              /\ btnLabel' = BusyLabel
              /\ calls' = Append(calls, [data |-> FormData(value),
                                         originalText |-> btnLabel])
         ELSE UNCHANGED << buttonVars, calls >>
    /\ unhandled' = (unhandled \/ (ValidateFormResult /\ ~hasSubmit))
    /\ lastOp' = "submit"
    /\ UNCHANGED << pageVars, layoutVars, value, toasts, debounceVars >>

(***************************************************************************)
(* The fetch of call i settles and submitForm resumes: response.ok,        *)
(* a non-ok response, or a rejected promise; then the finally block.       *)
(***************************************************************************)
Outcomes == {"ok", "notok", "reject"}
SettleOp(outcome) ==
    CASE outcome = "ok" -> "settle-ok"
      [] outcome = "notok" -> "settle-notok"
      [] outcome = "reject" -> "settle-reject"

\* The toast of an outcome: success on response.ok, error from the catch block.
OutcomeToast(outcome) == IF outcome = "ok" THEN "success" ELSE "error"

\* Variant: form.reset() runs whatever the outcome.
ValuesAfter_AlwaysReset(outcome, vals) == [f \in Fields |-> DefaultValue]

\* form.reset() runs on response.ok only.
ValuesAfter(outcome, vals) ==
    IF outcome = "ok" THEN [f \in Fields |-> DefaultValue] ELSE vals

\* The continuation of submitForm after await fetch, for in-flight call i.
SettleCall(i, outcome) ==
    /\ i \in 1..Len(calls)
    /\ toasts' = ShowMessage(toasts, OutcomeToast(outcome))
    /\ value' = ValuesAfter(outcome, value)
    /\ btnDisabled' = FALSE
    /\ btnLabel' = calls[i].originalText
    /\ calls' = RemoveAt(calls, i)
    /\ lastOp' = SettleOp(outcome)
    /\ UNCHANGED << pageVars, unhandled, layoutVars, errClass, errNode, debounceVars >>

Settle(i, outcome) ==
    /\ Len(toasts) < MaxToasts
    /\ SettleCall(i, outcome)

(***************************************************************************)
(* Toast timers (showMessage, lines 337-344).                              *)
(***************************************************************************)
\* Variant: the hide timer is started when the toast becomes visible.
ToastShow_RestartsHide(i) ==
    /\ i \in 1..Len(toasts)
    /\ toasts[i].tShow = 0
    /\ toasts' = [toasts EXCEPT ![i].show = TRUE, ![i].tShow = None,
                                ![i].tHide = ToastHideDelayMs]
    /\ lastOp' = "other"
    /\ UNCHANGED << pageVars, unhandled, layoutVars, fieldVars, buttonVars, calls, debounceVars >>

ToastShow(i) ==
    /\ i \in 1..Len(toasts)
    /\ toasts[i].tShow = 0
    /\ toasts' = [toasts EXCEPT ![i].show = TRUE, ![i].tShow = None]
    /\ lastOp' = "other"
    /\ UNCHANGED << pageVars, unhandled, layoutVars, fieldVars, buttonVars, calls, debounceVars >>

ToastHide(i) ==
    /\ i \in 1..Len(toasts)
    /\ toasts[i].tHide = 0
    /\ toasts' = [toasts EXCEPT ![i].show = FALSE, ![i].tHide = None,
                                ![i].tRemove = ToastRemoveDelayMs]
    /\ lastOp' = "other"
    /\ UNCHANGED << pageVars, unhandled, layoutVars, fieldVars, buttonVars, calls, debounceVars >>

ToastRemove(i) ==
    /\ i \in 1..Len(toasts)
    /\ toasts[i].tRemove = 0
    /\ toasts' = RemoveAt(toasts, i)
    /\ lastOp' = "other"
    /\ UNCHANGED << pageVars, unhandled, layoutVars, fieldVars, buttonVars, calls, debounceVars >>

(***************************************************************************)
(* Time passes: TickMs elapse on every pending timer.  Due callbacks run   *)
(* before the clock moves on.                                              *)
(***************************************************************************)
Elapse(t) == IF t = None THEN None ELSE t - TickMs

TimerDue ==
    \/ \E f \in Fields : timeout[f] = 0
    \/ \E i \in 1..Len(toasts) :
          toasts[i].tShow = 0 \/ toasts[i].tHide = 0 \/ toasts[i].tRemove = 0

TimerPending ==
    \/ \E f \in Fields : timeout[f] # None
    \/ toasts # << >>

Tick ==
    /\ ~TimerDue
    /\ TimerPending \/ \E f \in Fields : sinceInput[f] < DebounceWaitMs
    /\ timeout' = [f \in Fields |-> Elapse(timeout[f])]
    /\ toasts' = [i \in 1..Len(toasts) |->
                    [toasts[i] EXCEPT !.tShow = Elapse(@), !.tHide = Elapse(@),
                                      !.tRemove = Elapse(@)]]
    /\ sinceInput' = [f \in Fields |->
                        IF sinceInput[f] < DebounceWaitMs
                          THEN sinceInput[f] + TickMs ELSE sinceInput[f]]
    /\ lastOp' = "other"
    /\ UNCHANGED << pageVars, unhandled, layoutVars, fieldVars, buttonVars, calls, runs, burstLen >>

\* Everything but the submit event.
NextOther ==
    \/ \E f \in Fields : \E v \in EditValues : Input(f, v)
    \/ \E f \in Fields : Blur(f)
    \/ \E f \in Fields : DebounceFire(f)
    \/ \E i \in 1..MaxInFlight : \E o \in Outcomes : Settle(i, o)
    \/ \E i \in 1..MaxToasts : ToastShow(i)
    \/ \E i \in 1..MaxToasts : ToastHide(i)
    \/ \E i \in 1..MaxToasts : ToastRemove(i)
    \/ Tick

Next == HandleSubmit \/ NextOther

Spec == Init /\ [][Next]_vars

\* Submit events that arrive while no submission is in flight.
SubmitWhenIdle == calls = << >> /\ HandleSubmit

NextSequential == SubmitWhenIdle \/ NextOther

(***************************************************************************)
(* The event loop runs every due timer callback and time passes; every     *)
(* adapter call settles.                                                   *)
(***************************************************************************)
Fairness ==
    /\ WF_vars(Tick)
    /\ \A f \in Fields : WF_vars(DebounceFire(f))
    /\ \A i \in 1..MaxToasts :
          WF_vars(ToastShow(i)) /\ WF_vars(ToastHide(i)) /\ WF_vars(ToastRemove(i))
    /\ WF_vars(\E i \in 1..MaxInFlight : \E o \in Outcomes : Settle(i, o))

\* The behaviours whose submissions do not overlap, with that fairness.
FairSpec == Init /\ [][NextSequential]_vars /\ Fairness

(***************************************************************************)
(* Toasts in quick succession: the user fills the form in, submits (twice  *)
(* at most while a call is in flight) and waits; up to MaxCoexist toasts   *)
(* are on the page at once.                                                *)
(***************************************************************************)
InputWhenIdle(f, v) == calls = << >> /\ Input(f, v)

SettleCoexisting(i, outcome) ==
    /\ Len(toasts) < MaxCoexist
    /\ SettleCall(i, outcome)

NextToasts ==
    \/ \E f \in Fields : \E v \in EditValues : InputWhenIdle(f, v)
    \/ \E f \in Fields : DebounceFire(f)
    \/ HandleSubmit
    \/ \E i \in 1..MaxInFlight : \E o \in Outcomes : SettleCoexisting(i, o)
    \/ \E i \in 1..MaxCoexist : ToastShow(i)
    \/ \E i \in 1..MaxCoexist : ToastHide(i)
    \/ \E i \in 1..MaxCoexist : ToastRemove(i)
    \/ Tick

ToastFairness ==
    /\ WF_vars(Tick)
    /\ \A f \in Fields : WF_vars(DebounceFire(f))
    /\ \A i \in 1..MaxCoexist :
          WF_vars(ToastShow(i)) /\ WF_vars(ToastHide(i)) /\ WF_vars(ToastRemove(i))

ToastSpec == Init /\ [][NextToasts]_vars /\ ToastFairness

(***************************************************************************)
(* The validator as a function: validateField is called once on a field   *)
(* of any kind, required or not, whose value is any string of at most      *)
(* MaxLen characters over Alphabet, or one of the example values.          *)
(***************************************************************************)
Kinds == {"text", "email", "tel", "other"}
Alphabet == {"a", "@", ".", " ", "1"}
PhoneExample == <<"+", "1", " ", "(", "5", "5", "5", ")", " ", "1", "2", "3", "-",
                  "4", "5", "6", "7">>
WordsExample == <<"c", "a", "l", "l", " ", "m", "e">>
FieldValues ==
    UNION { [1..n -> Alphabet] : n \in 0..MaxLen } \cup {PhoneExample, WordsExample}

InitValidatorCall ==
    /\ parentOf = [f \in Fields |-> f]
    /\ hasSubmit = TRUE
    /\ InitForm
    /\ hasMenu = TRUE
    /\ InitMenu
    /\ InitThrottle
    /\ vIn \in [type : Kinds, required : BOOLEAN, value : FieldValues]
    /\ vDone = FALSE
    /\ vOut = [isValid |-> TRUE, message |-> MSG_NONE]
    /\ numButtons = MaxTabs
    /\ numPanels = MaxTabs
    /\ InitTabs

ValidateCall ==
    /\ ~vDone
    /\ vDone' = TRUE
    /\ vOut' = Verdict(vIn.type, vIn.required, vIn.value)
    /\ UNCHANGED << formVars, tabVars, menuVars, throttleVars, lastWidgetOp, vIn >>

ValidatorSpec == InitValidatorCall /\ [][ValidateCall]_vars

(***************************************************************************)
(* MobileMenu (lines 60-114).  A click runs the listener of its target     *)
(* first and the document listener after it, in one step.                  *)
(***************************************************************************)
Menu ==
    [isOpen |-> isOpen, nav |-> navActive, btn |-> btnActive,
     aria |-> ariaExpanded, overflow |-> bodyOverflow]

Open(m) ==
    [m EXCEPT !.nav = TRUE, !.btn = TRUE, !.aria = "true",
              !.overflow = "hidden", !.isOpen = TRUE]

Close(m) ==
    [m EXCEPT !.nav = FALSE, !.btn = FALSE, !.aria = "false",
              !.overflow = "", !.isOpen = FALSE]

Toggle(m) == IF m.isOpen THEN Close(m) ELSE Open(m)

\* Variant: the document listener does not test menuBtn.contains(e.target).
DocumentClick_NoButtonTest(m, inNav, inBtn) ==
    IF m.isOpen /\ ~inNav THEN Close(m) ELSE m

\* document 'click' listener; inNav, inBtn: nav / menuBtn contains the target.
DocumentClick(m, inNav, inBtn) ==
    IF m.isOpen /\ ~inNav /\ ~inBtn THEN Close(m) ELSE m

Keys == {"Escape", "Enter"}

\* document 'keydown' listener.
DocumentKeydown(m, key) ==
    IF key = "Escape" /\ m.isOpen THEN Close(m) ELSE m

SetMenu(m) ==
    /\ isOpen' = m.isOpen
    /\ navActive' = m.nav
    /\ btnActive' = m.btn
    /\ ariaExpanded' = m.aria
    /\ bodyOverflow' = m.overflow

\* init() registers the listeners only when menuBtn and nav exist.
MenuButtonClick ==
    /\ hasMenu
    /\ \E inNav \in BOOLEAN : SetMenu(DocumentClick(Toggle(Menu), inNav, TRUE))
    /\ lastWidgetOp' = "button"
    /\ UNCHANGED << formVars, tabVars, hasMenu, throttleVars, validatorVars >>

NavLinkClick ==
    /\ hasMenu
    /\ \E inNav \in BOOLEAN : SetMenu(DocumentClick(Close(Menu), inNav, FALSE))
    /\ lastWidgetOp' = "link"
    /\ UNCHANGED << formVars, tabVars, hasMenu, throttleVars, validatorVars >>

OutsideClick ==
    /\ hasMenu
    /\ SetMenu(DocumentClick(Menu, FALSE, FALSE))
    /\ lastWidgetOp' = "outside"
    /\ UNCHANGED << formVars, tabVars, hasMenu, throttleVars, validatorVars >>

KeyDown(key) ==
    /\ hasMenu
    /\ SetMenu(DocumentKeydown(Menu, key))
    /\ lastWidgetOp' = IF key = "Escape" THEN "escape" ELSE "key"
    /\ UNCHANGED << formVars, tabVars, hasMenu, throttleVars, validatorVars >>

(***************************************************************************)
(* utils.throttle (lines 25-36) around toggleBackToTop (lines 627-637).    *)
(***************************************************************************)
ScrollPositions == {0, ScrollThreshold, ScrollThreshold + ThrottleLimitMs}

\* Variant: the wrapper does not look at inThrottle.
ThrottleLets_Always(flag) == TRUE

\* if (!inThrottle)
ThrottleLets(flag) == ~flag

\* The wrapped action: the button shows below the threshold only.
ToggleBackToTop(y) == y > ScrollThreshold

\* 'scroll' event with the page now at y.
ScrollEvent(y) ==
    /\ y # scrollY
    /\ scrollY' = y
    /\ IF ThrottleLets(inThrottle)
         THEN /\ backVisible' = ToggleBackToTop(y)
              /\ inThrottle' = TRUE
              /\ throttleTimer' = ThrottleLimitMs
              /\ sinceRun' = 0
              /\ lastWidgetOp' = "scroll-ran"
         ELSE /\ UNCHANGED << backVisible, inThrottle, throttleTimer, sinceRun >>
              /\ lastWidgetOp' = "scroll-ignored"
    /\ UNCHANGED << formVars, tabVars, menuVars, validatorVars >>

\* setTimeout(() => inThrottle = false, limit)
ThrottleReset ==
    /\ throttleTimer = 0
    /\ inThrottle' = FALSE
    /\ throttleTimer' = None
    /\ lastWidgetOp' = "throttle-reset"
    /\ UNCHANGED << formVars, tabVars, menuVars, scrollY, backVisible, sinceRun, validatorVars >>

\* ScrollTickMs pass; a due timer runs first.
ScrollTick ==
    /\ throttleTimer # 0
    /\ throttleTimer # None \/ sinceRun < SinceRunCap
    /\ throttleTimer' = IF throttleTimer = None THEN None ELSE throttleTimer - ScrollTickMs
    /\ sinceRun' = IF sinceRun < SinceRunCap THEN sinceRun + ScrollTickMs ELSE sinceRun
    /\ lastWidgetOp' = "tick"
    /\ UNCHANGED << formVars, tabVars, menuVars, inThrottle, scrollY, backVisible, validatorVars >>

(***************************************************************************)
(* TabSystem (lines 117-162).  Buttons and panels are numbered from 0 as   *)
(* in the source; the page may hold any number of each.                    *)
(***************************************************************************)
TabKeys == {"ArrowLeft", "ArrowRight", "Enter"}

\* (index + direction + this.tabButtons.length) % this.tabButtons.length
NewIndex(index, key, n) ==
    (index + (IF key = "ArrowLeft" THEN -1 ELSE 1) + n) % n

\* switchTab(activeIndex)
SwitchTab(activeIndex) ==
    /\ tabActive' = [i \in 0..(numButtons - 1) |-> i = activeIndex]
    /\ ariaSelected' = [i \in 0..(numButtons - 1) |->
                           IF i = activeIndex THEN "true" ELSE "false"]
    /\ panelActive' = [j \in 0..(numPanels - 1) |-> j = activeIndex]
    /\ lastTab' = activeIndex

\* init() registers the listeners only when there are buttons and panels.
TabsReady == numButtons # 0 /\ numPanels # 0

TabClick(index) ==
    /\ TabsReady
    /\ index \in 0..(numButtons - 1)
    /\ SwitchTab(index)
    /\ lastWidgetOp' = "tab-click"
    /\ UNCHANGED << formVars, menuVars, throttleVars, validatorVars, numButtons, numPanels >>

TabKeyDown(index, key) ==
    /\ TabsReady
    /\ index \in 0..(numButtons - 1)
    /\ IF key \in {"ArrowLeft", "ArrowRight"}
         THEN /\ SwitchTab(NewIndex(index, key, numButtons))
              /\ lastWidgetOp' = IF key = "ArrowLeft" THEN "tab-left" ELSE "tab-right"
         ELSE /\ UNCHANGED << tabActive, ariaSelected, panelActive, lastTab >>
              /\ lastWidgetOp' = "tab-key"
    /\ UNCHANGED << formVars, menuVars, throttleVars, validatorVars, numButtons, numPanels >>

InitWidgets ==
    /\ parentOf = [f \in Fields |-> f]
    /\ hasSubmit = TRUE
    /\ InitForm
    /\ hasMenu \in BOOLEAN
    /\ InitMenu
    /\ InitThrottle
    /\ InitValidator
    /\ numButtons \in 0..MaxTabs
    /\ numPanels \in 0..MaxTabs
    /\ InitTabs

NextWidgets ==
    \/ MenuButtonClick
    \/ NavLinkClick
    \/ OutsideClick
    \/ \E key \in Keys : KeyDown(key)
    \/ \E y \in ScrollPositions : ScrollEvent(y)
    \/ ThrottleReset
    \/ ScrollTick
    \/ \E index \in 0..(MaxTabs - 1) : TabClick(index)
    \/ \E index \in 0..(MaxTabs - 1) : \E key \in TabKeys : TabKeyDown(index, key)

WidgetSpec == InitWidgets /\ [][NextWidgets]_vars

(***************************************************************************)
(* Properties.                                                             *)
(***************************************************************************)
DebounceOps == {"debounce", "debounce-burst"}
SettleOps == {"settle-ok", "settle-notok", "settle-reject"}
FailureOps == {"settle-notok", "settle-reject"}
NodeOf(f) == errNode[parentOf[f]]
SomeFieldInvalid == \E f \in Fields : ~FieldVerdict(f, value[f]).isValid
EveryFieldValid == \A f \in Fields : FieldVerdict(f, value[f]).isValid
LastToast == toasts[Len(toasts)]

\* C1: every submission ends with the form back in Idle: when the last
\* in-flight call settles (on any of the three exit paths) the submit
\* control is enabled and carries its original label.
C1_RestoredOnEveryExit ==
    [][(lastOp' \in SettleOps /\ Len(calls') < Len(calls) /\ calls' = << >>)
         => (btnDisabled' = FALSE /\ btnLabel' = OriginalLabel)]_vars

\* C2: whenever an adapter call is in flight the submit control is disabled
\* and shows the busy label.
C2_DisabledWhileInFlight ==
    calls # << >> => (btnDisabled /\ btnLabel = BusyLabel)

\* C3: a submit event on a form whose fields are all valid invokes the
\* adapter exactly once, with all field values; no other step invokes it.
C3_ExactlyOneCall ==
    [][/\ (lastOp' = "submit" /\ EveryFieldValid)
            => (/\ Len(calls') = Len(calls) + 1
                /\ SubSeq(calls', 1, Len(calls)) = calls
                /\ calls'[Len(calls')].data = value)
       /\ (lastOp' # "submit" \/ ~EveryFieldValid) => Len(calls') <= Len(calls)]_vars

\* C4: a submit event on a form with an invalid field leaves the in-flight
\* calls, the submit control, the toasts and the field values unchanged.
C4_InvalidSubmitAborts ==
    [][(lastOp' = "submit" /\ SomeFieldInvalid)
         => UNCHANGED << calls, btnDisabled, btnLabel, toasts, value >>]_vars

\* An invalid submit has just been handled on an idle form with a submit control.
C4_Witness ==
    /\ lastOp = "submit" /\ SomeFieldInvalid /\ hasSubmit
    /\ calls = << >> /\ ~btnDisabled /\ btnLabel = OriginalLabel
    /\ \E f \in Fields : errClass[f]

C6_NoStaleError ==
    \A f \in Fields :
        (timeout[f] = None /\ FieldVerdict(f, value[f]).isValid) => ~errClass[f]

\* C7: validating field a (on blur or from its debounce timer) leaves the
\* error class and the inline error node of every other field unchanged.
C7_ErrorNodePerField ==
    [][\A a \in Fields : (Blur(a) \/ DebounceFire(a))
         => \A b \in Fields \ {a} :
               errClass'[b] = errClass[b] /\ NodeOf(b)' = NodeOf(b)]_vars

\* C8: after validateForm every invalid field shows its error class and its
\* own inline message.
C8_EveryInvalidFieldShown ==
    [][lastOp' = "submit"
         => \A f \in Fields : ~FieldVerdict(f, value[f]).isValid
               => (errClass'[f] /\ NodeOf(f)' = FieldVerdict(f, value[f]).message)]_vars

\* C9: the debounced validator of a field runs only when DebounceWaitMs have
\* passed since the field's last input event, and at most once after it.
C9_DebounceQuietWindow ==
    /\ [](\A f \in Fields : runs[f] <= 1)
    /\ [][\A f \in Fields : (lastOp' \in DebounceOps /\ timeout'[f] # timeout[f])
             => sinceInput[f] >= DebounceWaitMs]_vars

\* A burst of at least two edits less than DebounceWaitMs apart was followed
\* by its single validation run.
C9_Witness ==
    \E f \in Fields :
        lastOp = "debounce-burst" /\ runs[f] = 1 /\ timeout[f] = None

\* C10: a pending debounce timer leads to a validation run unless a newer
\* edit restarts it, and the run leaves the field's displayed error in
\* agreement with the value the field holds at that moment.
C10_TrailingEdge ==
    /\ \A f \in Fields :
          (timeout[f] # None /\ timeout[f] < DebounceWaitMs)
             ~> (runs[f] = 1 \/ timeout[f] = DebounceWaitMs)
    /\ [][\A f \in Fields : (lastOp' \in DebounceOps /\ timeout'[f] # timeout[f])
             => LET r == FieldVerdict(f, value'[f])
                IN  /\ errClass'[f] = ~r.isValid
                    /\ NodeOf(f)' = IF r.isValid THEN NoNode ELSE r.message]_vars

\* The timer of an edited field has just run on an invalid final value.
C10_Witness ==
    \E f \in Fields :
        /\ lastOp \in DebounceOps /\ runs[f] = 1 /\ timeout[f] = None
        /\ value[f] # << >> /\ errClass[f] /\ NodeOf(f) = MSG_EMAIL
\* C11: debounce timers are per field and independent: an input event on
\* field a leaves the pending timer of every other field b as it was (not
\* cancelled, not restarted), and the debounced run of a leaves b's timer
\* alone too, under any interleaving of edits to a and b.
C11_TimersIndependent ==
    [][\A a \in Fields :
          ((\E v \in EditValues : Input(a, v)) \/ DebounceFire(a))
              => \A b \in Fields \ {a} : timeout'[b] = timeout[b]]_vars

\* Field 1 was edited while field 2's timer was running: field 2's timer
\* has kept its remaining delay and field 1's timer is freshly started.
C11_Witness ==
    /\ timeout[1] = DebounceWaitMs
    /\ sinceInput[1] = 0
    /\ timeout[2] # None
    /\ timeout[2] < DebounceWaitMs
    /\ sinceInput[2] = DebounceWaitMs - timeout[2]

\* The three phases of a toast on the page, with the time left in each.
ToastCreated(t) ==
    /\ ~t.show
    /\ t.tShow \in 0..ToastShowDelayMs
    /\ t.tHide = t.tShow + (ToastHideDelayMs - ToastShowDelayMs)
    /\ t.tRemove = None

ToastVisible(t) ==
    /\ t.show
    /\ t.tShow = None
    /\ t.tHide \in 0..(ToastHideDelayMs - ToastShowDelayMs)
    /\ t.tRemove = None

ToastFading(t) ==
    /\ ~t.show
    /\ t.tShow = None
    /\ t.tHide = None
    /\ t.tRemove \in 0..ToastRemoveDelayMs

ToastPhase(t) ==
    IF ToastCreated(t) THEN 1 ELSE IF ToastVisible(t) THEN 2
    ELSE IF ToastFading(t) THEN 3 ELSE 0

\* One step of the toasts: a toast is appended in phase created, or a fading
\* toast whose 300 ms are over is removed, or every toast stays in its phase
\* or moves to the next one when the timer of its phase is due.
ToastStep ==
    IF Len(toasts') = Len(toasts) + 1
    THEN /\ SubSeq(toasts', 1, Len(toasts)) = toasts
         /\ ToastCreated(toasts'[Len(toasts')])
         /\ toasts'[Len(toasts')].tShow = ToastShowDelayMs
    ELSE IF Len(toasts') = Len(toasts) - 1
    THEN \E i \in 1..Len(toasts) :
            /\ ToastFading(toasts[i])
            /\ toasts[i].tRemove = 0
            /\ toasts' = RemoveAt(toasts, i)
    ELSE /\ Len(toasts') = Len(toasts)
         /\ \A i \in 1..Len(toasts) :
               \/ ToastPhase(toasts'[i]) = ToastPhase(toasts[i])
               \/ /\ ToastCreated(toasts[i]) /\ toasts[i].tShow = 0
                  /\ ToastVisible(toasts'[i])
                  /\ \A j \in 1..Len(toasts) \ {i} : toasts'[j] = toasts[j]
               \/ /\ ToastVisible(toasts[i]) /\ toasts[i].tHide = 0
                  /\ ToastFading(toasts'[i])
                  /\ toasts'[i].tRemove = ToastRemoveDelayMs
                  /\ \A j \in 1..Len(toasts) \ {i} : toasts'[j] = toasts[j]

\* C12: every toast is created hidden, becomes visible 100 ms after its
\* creation, starts fading 3000 ms after its creation and is removed 300 ms
\* after that, in this order, no step skipped or repeated; toasts created
\* in quick succession each follow this lifecycle on their own, and every
\* toast is eventually removed: the oldest toast on the page leaves each
\* phase it is in, and the phase after fading is removal.
C12_ToastLifecycle ==
    /\ [](\A i \in 1..Len(toasts) : ToastPhase(toasts[i]) # 0)
    /\ [][ToastStep]_vars
    /\ \A ph \in 1..3 :
          (toasts # << >> /\ ToastPhase(toasts[1]) = ph)
              ~> (toasts = << >> \/ ToastPhase(toasts[1]) # ph)

\* Two toasts coexist in different phases: the first is fading while the
\* second, created later, is still visible.
C12_Witness ==
    /\ Len(toasts) = MaxCoexist
    /\ ToastFading(toasts[1])
    /\ ToastVisible(toasts[2])
    /\ toasts[2].tHide > 0

\* What the claims about the validator say of a value, stated on the value
\* itself: whitespace-only, the part between the outer whitespace, the
\* mail shape local@domain.tld, the characters of a phone number.
AllSpace(s) == \A k \in 1..Len(s) : s[k] \in {" ", "\t"}

Core(s) ==
    IF AllSpace(s) THEN << >>
    ELSE LET ks == { k \in 1..Len(s) : s[k] \notin {" ", "\t"} }
             lo == CHOOSE k \in ks : \A j \in ks : k <= j
             hi == CHOOSE k \in ks : \A j \in ks : k >= j
         IN  SubSeq(s, lo, hi)

EmailShape(s) ==
    LET ats == { k \in 1..Len(s) : s[k] = "@" } IN
    /\ Cardinality(ats) = 1
    /\ \A k \in 1..Len(s) : s[k] \notin {" ", "\t"}
    /\ \E a \in ats : a > 1 /\ \E d \in (a + 2)..(Len(s) - 1) : s[d] = "."

PhoneChars == {"0", "1", "2", "3", "4", "5", "6", "7", "8", "9",
               " ", "\t", "-", "+", "(", ")"}
OnlyPhoneChars(s) == \A k \in 1..Len(s) : s[k] \in PhoneChars

\* C13: for every kind, validating a required field whose value is empty
\* or whitespace-only returns invalid with the required-field message,
\* whatever the email and tel checks would say.
C13_RequiredFirst ==
    (vDone /\ vIn.required /\ AllSpace(vIn.value))
        => vOut = [isValid |-> FALSE, message |-> MSG_REQUIRED]

\* A required email field holding two spaces was validated.
C13_Witness ==
    /\ vDone
    /\ vIn = [type |-> "email", required |-> TRUE, value |-> <<" ", " ">>]
    /\ vOut.message = MSG_REQUIRED

\* C14 (as stated): for every non-empty value, whitespace-only values and
\* values with leading or trailing whitespace included, validate on
\* kind=email returns valid iff the value has the email shape.
C14_EmailIffShape ==
    (vDone /\ vIn.type = "email" /\ vIn.value # << >>)
        => (vOut.isValid <=> EmailShape(vIn.value))

\* C14 (amended): the verdict is taken on the value without its leading and
\* trailing whitespace: if that part is non-empty the field is valid iff the
\* part has the email shape, and a whitespace-only value counts as empty,
\* invalid iff the field is required.
C14_EmailIffTrimmedShape ==
    (vDone /\ vIn.type = "email" /\ vIn.value # << >>)
        => (vOut.isValid <=>
              IF AllSpace(vIn.value) THEN ~vIn.required ELSE EmailShape(Core(vIn.value)))

\* An address typed with a leading space was validated and accepted.
C14_Witness ==
    /\ vDone
    /\ vIn.type = "email"
    /\ vIn.value = <<" ", "a", "@", "a", ".", "a">>
    /\ vOut.isValid

\* C15 (as stated): for kind=tel and a non-empty value, validate returns
\* valid iff every character is a digit, whitespace, '-', '+', '(' or ')'.
C15_TelIffPhoneChars ==
    (vDone /\ vIn.type = "tel" /\ vIn.value # << >>)
        => (vOut.isValid <=> OnlyPhoneChars(vIn.value))

\* C15 (amended): the same, except that a whitespace-only value of a
\* required field is invalid (the required check comes first).
C15_TelIffPhoneCharsUnlessBlank ==
    (vDone /\ vIn.type = "tel" /\ vIn.value # << >>)
        => (vOut.isValid <=>
              (OnlyPhoneChars(vIn.value) /\ ~(vIn.required /\ AllSpace(vIn.value))))

\* The example number "+1 (555) 123-4567" was validated and accepted in a
\* required tel field.
C15_Witness ==
    /\ vDone
    /\ vIn = [type |-> "tel", required |-> TRUE, value |-> PhoneExample]
    /\ vOut.isValid

\* C16: whenever no adapter call is in flight, overlapping submissions
\* included, the submit control is enabled and carries the label it had
\* before the first submission.
C16_IdleControlRestored ==
    calls = << >> => (~btnDisabled /\ btnLabel = OriginalLabel)

\* C17: a submit event validates, disables the control and serializes in
\* one step: the data of a new adapter call are the field values of that
\* step, all of them valid, and the control is disabled with it; no other
\* step adds a call or changes the data of a call in flight, so every call
\* in flight carries validated values whatever is typed meanwhile.
C17_SentIsValidated ==
    /\ [](\A i \in 1..Len(calls) : \A f \in Fields :
             FieldVerdict(f, calls[i].data[f]).isValid)
    /\ [][IF Len(calls') > Len(calls)
           THEN /\ lastOp' = "submit"
                /\ EveryFieldValid
                /\ value' = value
                /\ calls' = Append(calls, [data |-> value, originalText |-> btnLabel])
                /\ btnDisabled'
           ELSE \A i \in 1..Len(calls') : \E j \in 1..Len(calls) : calls'[i] = calls[j]]_vars

\* A call is in flight with valid data while the form, edited since, holds
\* other values, one of them invalid.
C17_Witness ==
    /\ calls # << >>
    /\ calls[1].data # value
    /\ calls[1].data[1] = EmailOk
    /\ SomeFieldInvalid
    /\ timeout[1] = None

\* C18: no submission ends in an error nobody handles, on any form, one
\* without a [type="submit"] element included.
C18_NoUnhandledFailure == ~unhandled

ScrollOps == {"scroll-ran", "scroll-ignored"}

\* C19: the throttled function runs the wrapped action at most once per
\* interval: a trigger runs it only if the last run is at least
\* ThrottleLimitMs back (the first trigger at once), a trigger less than
\* that after a run is ignored and leaves nothing behind to run later, and
\* a trigger more than the interval after the last run runs it again.
C19_ThrottleOncePerInterval ==
    [][/\ lastWidgetOp' = "scroll-ran" =>
            (sinceRun >= ThrottleLimitMs /\ sinceRun' = 0
                /\ backVisible' = (scrollY' > ScrollThreshold))
       /\ lastWidgetOp' = "scroll-ignored" =>
            (sinceRun <= ThrottleLimitMs
                /\ UNCHANGED << backVisible, sinceRun, inThrottle, throttleTimer >>)
       /\ lastWidgetOp' \notin ScrollOps =>
            (backVisible' = backVisible /\ sinceRun' >= sinceRun)]_vars

\* A scroll event half an interval after a run was ignored: the button still
\* shows what the run found, not where the page is now.
C19_Witness ==
    /\ lastWidgetOp = "scroll-ignored"
    /\ inThrottle
    /\ sinceRun = ScrollTickMs
    /\ backVisible # (scrollY > ScrollThreshold)

\* The page shows the menu open / closed.
MenuShownOpen ==
    navActive /\ btnActive /\ ariaExpanded = "true" /\ bodyOverflow = "hidden"

MenuShownClosed ==
    ~navActive /\ ~btnActive /\ ariaExpanded = "false" /\ bodyOverflow = ""

\* C20: the isOpen flag and the page stay in step: isOpen holds iff nav and
\* button carry 'active', aria-expanded is 'true' and body scrolling is
\* locked; a menu-button click flips the state exactly once; a nav-link
\* click, an outside click and Escape leave the menu closed.
C20_MenuInStep ==
    /\ [](IF isOpen THEN MenuShownOpen ELSE MenuShownClosed)
    /\ [][(lastWidgetOp' = "button" => isOpen' = ~isOpen)
           /\ (lastWidgetOp' \in {"link", "outside", "escape"} => ~isOpen')]_vars

\* A click on the menu button has opened the menu and the document
\* listener, run after it, has left it open.
C20_Witness ==
    /\ lastWidgetOp = "button"
    /\ isOpen
    /\ MenuShownOpen

TabOps == {"tab-click", "tab-left", "tab-right"}

\* C21: after any switchTab call reached from a click or an arrow key,
\* the target index is one of the buttons, exactly that button is active
\* with aria-selected true, and exactly the panel of the same index is
\* active; ArrowRight on the last button targets the first and ArrowLeft
\* on the first targets the last.
C21_OneTabOnePanel ==
    /\ [](lastTab # None =>
            /\ lastTab \in 0..(numButtons - 1)
            /\ { i \in 0..(numButtons - 1) : tabActive[i] } = {lastTab}
            /\ { i \in 0..(numButtons - 1) : ariaSelected[i] = "true" } = {lastTab}
            /\ { j \in 0..(numPanels - 1) : panelActive[j] } = {lastTab})
    /\ [][(TabKeyDown(numButtons - 1, "ArrowRight") => lastTab' = 0)
           /\ (TabKeyDown(0, "ArrowLeft") => lastTab' = numButtons - 1)]_vars

====
